---- MODULE Spec2Model ----
(***************************************************************************)
(* Resource bookkeeping of netv2.py: the register-window allocation        *)
(* csr_map_update, the class body of NeTV2SoC that builds csr_map,         *)
(* interrupt_map and mem_map on top of SoCSDRAM's maps, and the            *)
(* constructor NeTV2SoC.__init__ that instantiates the enabled peripherals *)
(* and declares their clock-domain crossings.                              *)
(*                                                                         *)
(* Python dicts are functions whose DOMAIN is the key set.  SoCSDRAM's     *)
(* maps come from a library outside the repository and are inputs.         *)
(***************************************************************************)
EXTENDS Integers, Sequences, FiniteSets, TLC

VARIABLES
    pc,                      \* position of the interpreter in the program
    err,                     \* the uncaught exception, "none" while running
    caller,                  \* who called NeTV2SoC.__init__
    debug,                   \* Python's __debug__ (False under python -O)
    csr_peripherals,         \* the list handed to csr_map_update
    csr_map,                 \* SoCSDRAM.csr_map, the dict updated in place
    csr_map0,                \* history: csr_map before any update
    csr_first,               \* history: csr_map after the first update
    runs,                    \* history: calls of csr_map_update so far
    SoCSDRAM_interrupt_map,  \* the parent's interrupt map
    SoCSDRAM_mem_map,        \* the parent's memory map
    interrupt_map,           \* NeTV2SoC.interrupt_map
    mem_map,                 \* NeTV2SoC.mem_map
    args,                    \* the with_* arguments of __init__
    submodules,              \* self.submodules: name -> branch that bound it
    requested,               \* platform resources requested so far
    false_paths,             \* the platform's false-path constraints
    memory_regions,          \* regions handed to add_memory_region
    constants,               \* add_constant: name -> value
    has_sdram,               \* whether self.sdram exists
    done                     \* history: the phases completed so far

vars == <<pc, err, caller, debug, csr_peripherals, csr_map, csr_map0, csr_first,
          runs, SoCSDRAM_interrupt_map, SoCSDRAM_mem_map, interrupt_map, mem_map,
          args, submodules, requested, false_paths, memory_regions, constants,
          has_sdram, done>>

(***************************************************************************)
(* Bounds of the inputs.                                                   *)
(***************************************************************************)
MaxOrd == 2       \* base register ordinals are drawn from 0..MaxOrd
MaxLen == 3       \* longest peripheral list handed to csr_map_update
MaxRuns == 2      \* calls of csr_map_update on the same dict
MaxIrq == 3       \* base interrupt ordinals are drawn from 0..MaxIrq
MaxCsr == 1       \* base register ordinals of the program run: 0..MaxCsr

AllocNames == {"crg", "uart", "ethphy", "ethmac"}
BaseCsrNames == {"crg"}
BaseIrqNames == {"uart"}
BaseMemNames == {"main_ram"}

(***************************************************************************)
(* Program constants.                                                      *)
(***************************************************************************)
ETHMAC_INTERRUPT == 3
ETHMAC_BASE == 805306368
ETHMAC_SIZE == 8192
\* addresses the parent's regions are drawn from: the one NeTV2SoC gives
\* ethmac, and the first one past the ethmac window
BaseAddrs == {ETHMAC_BASE, ETHMAC_BASE + ETHMAC_SIZE}

NeTV2SoC_csr_peripherals ==
    << "crg", "dna", "xadc", "flash", "icap", "ddrphy", "ethphy", "ethmac",
       "pcie_phy", "pcie_dma0", "pcie_dma1", "pcie_msi",
       "hdmi_out0", "hdmi_in0", "hdmi_in0_freq", "hdmi_in0_edid_mem" >>

(***************************************************************************)
(* Dicts.                                                                  *)
(***************************************************************************)
EmptyMap == [n \in {} |-> 0]

Values(d) == {d[n] : n \in DOMAIN d}

Max(S) == CHOOSE x \in S : \A y \in S : y <= x

Injective(d) == \A a, b \in DOMAIN d : a # b => d[a] # d[b]

\* dict.update: the keys of e are bound to e's values, the others keep d's
dict_update(d, e) ==
    [n \in (DOMAIN d) \cup (DOMAIN e) |-> IF n \in DOMAIN e THEN e[n] ELSE d[n]]

Range(s) == {s[i] : i \in 1..Len(s)}

LastIndex(s, n) ==
    CHOOSE i \in 1..Len(s) : s[i] = n /\ \A j \in (i+1)..Len(s) : s[j] # n

\* dict((n, v) for v, n in enumerate(s, start)): a repeated name keeps the
\* value of its last position
enumerate_dict(s, start) == [n \in Range(s) |-> start + LastIndex(s, n) - 1]

\* all injective dicts from a subset of names into 0..top
InjectiveMaps(names, top) ==
    UNION {{d \in [D -> 0..top] : Injective(d)} : D \in SUBSET names}

SeqsUpTo(S, n) == UNION {[1..k -> S] : k \in 0..n}

(***************************************************************************)
(* csr_map_update                                                          *)
(***************************************************************************)
\* max() of an empty dict's values raises ValueError before anything is bound
csr_map_update_raises(m) == DOMAIN m = {}

csr_map_update(m, peripherals) ==
    dict_update(m, enumerate_dict(peripherals, Max(Values(m)) + 1))

(***************************************************************************)
(* Collaborators of the constructor.                                       *)
(***************************************************************************)
\* the keyword defaults of NeTV2SoC.__init__
Defaults ==
    [with_sdram |-> TRUE, with_ethernet |-> FALSE, with_etherbone |-> TRUE,
     with_pcie |-> FALSE, with_hdmi_in0 |-> TRUE, with_hdmi_out0 |-> TRUE]

Configurations ==
    [with_sdram : BOOLEAN, with_ethernet : BOOLEAN, with_etherbone : BOOLEAN,
     with_pcie : BOOLEAN, with_hdmi_in0 : BOOLEAN, with_hdmi_out0 : BOOLEAN]

\* self.submodules.<name> = ... for every name of names, in branch `by`:
\* an attribute assignment, which rebinds a name that is already bound
bind(subs, names, by) ==
    [n \in (DOMAIN subs) \cup names |-> IF n \in names THEN by ELSE subs[n]]

SamePair(e, a, b) == {e[1], e[2]} = {a, b}

\* mutant: every declaration is recorded, declared before or not
add_false_path_constraints_append(fp, a, b) == Append(fp, <<a, b>>)

\* platform.add_false_path_constraints(a, b): the pair joins the constraints
\* unless it is already there, in either order
add_false_path_constraints(fp, a, b) ==
    IF \E i \in 1..Len(fp) : SamePair(fp[i], a, b) THEN fp ELSE Append(fp, <<a, b>>)

RECURSIVE add_false_paths_skip_last(_, _, _)
\* mutant: the loop stops one clock short
add_false_paths_skip_last(fp, a, clks) ==
    IF Len(clks) <= 1 THEN fp
    ELSE add_false_paths_skip_last(add_false_path_constraints(fp, a, Head(clks)),
                                   a, Tail(clks))

RECURSIVE add_false_paths(_, _, _)
\* the for loops of the hdmi branches: one declaration per clock of clks
add_false_paths(fp, a, clks) ==
    IF clks = <<>> THEN fp
    ELSE add_false_paths(add_false_path_constraints(fp, a, Head(clks)), a, Tail(clks))

edges(fp) == {{fp[i][1], fp[i][2]} : i \in 1..Len(fp)}

\* mutant: the exception is recorded and the program goes on
Raise_and_go_on(e) == pc' = pc /\ err' = e

\* an uncaught exception ends the program
Raise(e) == pc' = "failed" /\ err' = e

(***************************************************************************)
(* The program: import of netv2.py, then main or a direct construction.    *)
(***************************************************************************)
Idle ==
    /\ err = "none"
    /\ caller = "none"
    /\ csr_map0 = csr_map
    /\ csr_first = EmptyMap
    /\ runs = 0
    /\ interrupt_map = EmptyMap
    /\ mem_map = EmptyMap
    /\ args = Defaults
    /\ submodules = EmptyMap
    /\ requested = {}
    /\ false_paths = <<>>
    /\ memory_regions = {}
    /\ constants = EmptyMap
    /\ has_sdram = FALSE
    /\ done = {}

Init ==
    /\ pc = "class_body"
    /\ debug \in BOOLEAN
    /\ csr_peripherals = NeTV2SoC_csr_peripherals
    /\ csr_map \in InjectiveMaps(BaseCsrNames, MaxCsr)
    /\ SoCSDRAM_interrupt_map \in InjectiveMaps(BaseIrqNames, MaxIrq)
    /\ SoCSDRAM_mem_map \in UNION {[D -> BaseAddrs] : D \in SUBSET BaseMemNames}
    /\ Idle

\* lines 80-113: the class body allocates the register windows in the
\* parent's dict, then builds the interrupt and the memory map
NeTV2SoC_class_body ==
    /\ pc = "class_body"
    /\ runs' = runs + 1
    /\ IF csr_map_update_raises(csr_map)
       THEN /\ Raise("ValueError")
            /\ UNCHANGED <<csr_map, csr_first, interrupt_map, mem_map, done>>
       ELSE /\ csr_map' = csr_map_update(csr_map, csr_peripherals)
            /\ csr_first' = csr_map'
            /\ interrupt_map' =
                   dict_update([n \in {"ethmac"} |-> ETHMAC_INTERRUPT],
                               SoCSDRAM_interrupt_map)
            /\ mem_map' =
                   dict_update([n \in {"ethmac"} |-> ETHMAC_BASE], SoCSDRAM_mem_map)
            /\ done' = done \cup {"allocation"}
            /\ pc' = "loaded"
            /\ UNCHANGED err
    /\ UNCHANGED <<caller, debug, csr_peripherals, csr_map0, SoCSDRAM_interrupt_map,
                   SoCSDRAM_mem_map, args, submodules, requested, false_paths,
                   memory_regions, constants, has_sdram>>

\* lines 299-309: main builds NeTV2MVPSoC or NeTV2SoC, both with the defaults
main ==
    /\ pc = "loaded"
    /\ \E mvp \in BOOLEAN :
          /\ caller' = IF mvp THEN "main_mvp" ELSE "main"
          /\ args' = IF mvp THEN [Defaults EXCEPT !.with_ethernet = FALSE] ELSE Defaults
    /\ pc' = "init_assert"
    /\ UNCHANGED <<err, debug, csr_peripherals, csr_map, csr_map0, csr_first, runs,
                   SoCSDRAM_interrupt_map, SoCSDRAM_mem_map, interrupt_map, mem_map,
                   submodules, requested, false_paths, memory_regions, constants,
                   has_sdram, done>>

\* lines 118-123: a construction with any keyword arguments
NeTV2SoC_call ==
    /\ pc = "loaded"
    /\ caller' = "direct"
    /\ args' \in Configurations
    /\ pc' = "init_assert"
    /\ UNCHANGED <<err, debug, csr_peripherals, csr_map, csr_map0, csr_first, runs,
                   SoCSDRAM_interrupt_map, SoCSDRAM_mem_map, interrupt_map, mem_map,
                   submodules, requested, false_paths, memory_regions, constants,
                   has_sdram, done>>

classvars == <<caller, debug, csr_peripherals, csr_map, csr_map0, csr_first, runs,
               SoCSDRAM_interrupt_map, SoCSDRAM_mem_map, interrupt_map, mem_map, args>>

\* line 124: with_interboard_communication is bound nowhere, so the assert
\* raises NameError as soon as with_pcie makes Python evaluate it; python -O
\* drops the assert
init_assert ==
    /\ pc = "init_assert"
    /\ IF debug /\ args.with_pcie
       THEN Raise("NameError") /\ UNCHANGED done
       ELSE pc' = "SoCSDRAM_init" /\ done' = done \cup {"validation"} /\ UNCHANGED err
    /\ UNCHANGED classvars
    /\ UNCHANGED <<submodules, requested, false_paths, memory_regions, constants,
                   has_sdram>>

\* lines 125-136: the parent's constructor
SoCSDRAM_init ==
    /\ pc = "SoCSDRAM_init"
    /\ pc' = "core"
    /\ UNCHANGED classvars
    /\ UNCHANGED <<err, submodules, requested, false_paths, memory_regions, constants,
                   has_sdram, done>>

\* lines 138-151: crg, dna, xadc, icap, flash
core_peripherals ==
    /\ pc = "core"
    /\ submodules' = bind(submodules, {"crg", "dna", "xadc", "icap", "flash"}, "core")
    /\ requested' = requested \cup {"clk50", "flash"}
    /\ done' = done \cup {"instantiation"}
    /\ pc' = "sdram"
    /\ UNCHANGED classvars
    /\ UNCHANGED <<err, false_paths, memory_regions, constants, has_sdram>>

\* lines 153-163: register_sdram is what creates self.sdram; without it the
\* attribute exists only if the parent made one for the integrated main RAM
sdram_branch ==
    /\ pc = "sdram"
    /\ IF args.with_sdram
       THEN /\ submodules' = bind(submodules, {"ddrphy"}, "sdram")
            /\ requested' = requested \cup {"ddram"}
            /\ has_sdram' = TRUE
       ELSE /\ has_sdram' \in BOOLEAN
            /\ UNCHANGED <<submodules, requested>>
    /\ pc' = "ethernet"
    /\ UNCHANGED classvars
    /\ UNCHANGED <<err, false_paths, memory_regions, constants, done>>

\* lines 164-175
ethernet_branch ==
    /\ pc = "ethernet"
    /\ IF args.with_ethernet
       THEN /\ requested' = requested \cup {"eth_clocks", "eth"}
            /\ submodules' = bind(submodules, {"ethphy", "ethmac"}, "ethernet")
            /\ memory_regions' = memory_regions \cup
                   {[name |-> "ethmac", origin |-> mem_map["ethmac"],
                     shadow |-> TRUE, length |-> ETHMAC_SIZE]}
            /\ false_paths' = add_false_path_constraints(false_paths, "sys", "eth")
       ELSE UNCHANGED <<requested, submodules, memory_regions, false_paths>>
    /\ pc' = "etherbone"
    /\ UNCHANGED classvars
    /\ UNCHANGED <<err, constants, has_sdram, done>>

\* lines 177-189: the branch requests eth_clocks and eth again when the
\* ethernet branch ran; whether the platform hands a resource out twice is
\* the platform's business, so both outcomes are kept
etherbone_branch ==
    /\ pc = "etherbone"
    /\ \/ /\ args.with_etherbone
          /\ "eth_clocks" \in requested
          /\ Raise("ConstraintError")
          /\ UNCHANGED <<requested, submodules, false_paths>>
       \/ /\ args.with_etherbone
          /\ requested' = requested \cup {"eth_clocks", "eth"}
          /\ submodules' = bind(submodules, {"ethphy", "ethcore", "etherbone"}, "etherbone")
          /\ false_paths' = add_false_path_constraints(false_paths, "sys", "eth")
          /\ pc' = "pcie"
          /\ UNCHANGED err
       \/ /\ ~args.with_etherbone
          /\ pc' = "pcie"
          /\ UNCHANGED <<err, requested, submodules, false_paths>>
    /\ UNCHANGED classvars
    /\ UNCHANGED <<memory_regions, constants, has_sdram, done>>

\* lines 191-218: sorted(self.interrupts.items()) puts READER before WRITER
pcie_branch ==
    /\ pc = "pcie"
    /\ IF args.with_pcie
       THEN /\ requested' = requested \cup {"pcie_x2"}
            /\ submodules' = bind(submodules,
                   {"pcie_phy", "pcie_endpoint", "pcie_bridge", "pcie_dma0", "pcie_msi"},
                   "pcie")
            /\ false_paths' = add_false_path_constraints(false_paths, "sys", "pcie")
            /\ constants' = dict_update(constants,
                   [n \in {"PCIE_DMA0_READER_INTERRUPT", "PCIE_DMA0_WRITER_INTERRUPT"} |->
                       IF n = "PCIE_DMA0_READER_INTERRUPT" THEN 0 ELSE 1])
       ELSE UNCHANGED <<requested, submodules, false_paths, constants>>
    /\ pc' = "hdmi_in0"
    /\ UNCHANGED classvars
    /\ UNCHANGED <<err, memory_regions, has_sdram, done>>

\* lines 220-235: line 226 reads self.sdram after hdmi_in0_freq is bound
hdmi_in0_branch ==
    /\ pc = "hdmi_in0"
    /\ IF args.with_hdmi_in0
       THEN /\ requested' = requested \cup {"hdmi_in0"}
            /\ IF has_sdram
               THEN /\ submodules' = bind(submodules, {"hdmi_in0_freq", "hdmi_in0"}, "hdmi_in0")
                    /\ false_paths' = add_false_paths(false_paths, "sys",
                           <<"hdmi_in0_pix", "hdmi_in0_pix1p25x", "hdmi_in0_pix5x">>)
                    /\ pc' = "hdmi_out0"
                    /\ UNCHANGED err
               ELSE /\ submodules' = bind(submodules, {"hdmi_in0_freq"}, "hdmi_in0")
                    /\ Raise("AttributeError")
                    /\ UNCHANGED false_paths
       ELSE /\ pc' = "hdmi_out0"
            /\ UNCHANGED <<err, requested, submodules, false_paths>>
    /\ UNCHANGED classvars
    /\ UNCHANGED <<memory_regions, constants, has_sdram, done>>

\* lines 237-248: line 239 reads self.sdram first
hdmi_out0_branch ==
    /\ pc = "hdmi_out0"
    /\ IF args.with_hdmi_out0
       THEN IF has_sdram
            THEN /\ requested' = requested \cup {"hdmi_out0"}
                 /\ submodules' = bind(submodules, {"hdmi_out0"}, "hdmi_out0")
                 /\ false_paths' = add_false_paths(false_paths, "sys",
                        <<"hdmi_out0_pix", "hdmi_out0_pix5x">>)
                 /\ pc' = "hdmi_in1"
                 /\ UNCHANGED err
            ELSE /\ Raise("AttributeError")
                 /\ UNCHANGED <<requested, submodules, false_paths>>
       ELSE /\ pc' = "hdmi_in1"
            /\ UNCHANGED <<err, requested, submodules, false_paths>>
    /\ UNCHANGED classvars
    /\ UNCHANGED <<memory_regions, constants, has_sdram, done>>

\* line 251: with_hdmi_in1 is bound nowhere, so every construction that gets
\* this far ends in NameError; lines 252-290 and main's lines 310-316
\* (Builder.build, generate_software_header) never run
hdmi_in1_branch ==
    /\ pc = "hdmi_in1"
    /\ Raise("NameError")
    /\ UNCHANGED classvars
    /\ UNCHANGED <<submodules, requested, false_paths, memory_regions, constants,
                   has_sdram, done>>

Next ==
    \/ NeTV2SoC_class_body
    \/ main
    \/ NeTV2SoC_call
    \/ init_assert
    \/ SoCSDRAM_init
    \/ core_peripherals
    \/ sdram_branch
    \/ ethernet_branch
    \/ etherbone_branch
    \/ pcie_branch
    \/ hdmi_in0_branch
    \/ hdmi_out0_branch
    \/ hdmi_in1_branch

Spec == Init /\ [][Next]_vars

(***************************************************************************)
(* csr_map_update on its own: any base dict, any list, called repeatedly   *)
(* on the same dict.                                                       *)
(***************************************************************************)
InitAlloc ==
    /\ pc = "alloc"
    /\ debug = TRUE
    /\ csr_peripherals \in SeqsUpTo(AllocNames, MaxLen)
    /\ csr_map \in InjectiveMaps(AllocNames, MaxOrd)
    /\ SoCSDRAM_interrupt_map = EmptyMap
    /\ SoCSDRAM_mem_map = EmptyMap
    /\ Idle

call_csr_map_update ==
    /\ pc = "alloc"
    /\ runs < MaxRuns
    /\ runs' = runs + 1
    /\ IF csr_map_update_raises(csr_map)
       THEN Raise("ValueError") /\ UNCHANGED <<csr_map, csr_first>>
       ELSE /\ csr_map' = csr_map_update(csr_map, csr_peripherals)
            /\ csr_first' = IF runs = 0 THEN csr_map' ELSE csr_first
            /\ UNCHANGED <<pc, err>>
    /\ UNCHANGED <<caller, debug, csr_peripherals, csr_map0, SoCSDRAM_interrupt_map,
                   SoCSDRAM_mem_map, interrupt_map, mem_map, args, submodules,
                   requested, false_paths, memory_regions, constants, has_sdram, done>>

NextAlloc == call_csr_map_update

SpecAlloc == InitAlloc /\ [][NextAlloc]_vars

(***************************************************************************)
(* Properties.                                                             *)
(***************************************************************************)
HasDuplicate(s) == \E i, j \in 1..Len(s) : i # j /\ s[i] = s[j]

FirstIndex(s, n) == CHOOSE i \in 1..Len(s) : s[i] = n /\ \A j \in 1..(i-1) : s[j] # n

\* position of n among the names of s that base does not hold, counted in
\* order of first appearance, from 1
NewRank(s, base, n) ==
    Cardinality({m \in Range(s) \ DOMAIN base : FirstIndex(s, m) <= FirstIndex(s, n)})

\* C1: no ordinal is held by two names of the register map, nor by two names
\* of the interrupt map
C1_UniqueOrdinals == Injective(csr_map) /\ Injective(interrupt_map)

\* C2: every name of a base map keeps, in the extended map, the ordinal or
\* address the base map gave it (registers, interrupts, memory), also when
\* the name is in the list being allocated
C2_BaseEntriesKept ==
    /\ \A n \in DOMAIN csr_map0 : n \in DOMAIN csr_map /\ csr_map[n] = csr_map0[n]
    /\ "allocation" \in done =>
          /\ \A n \in DOMAIN SoCSDRAM_interrupt_map :
                interrupt_map[n] = SoCSDRAM_interrupt_map[n]
          /\ \A n \in DOMAIN SoCSDRAM_mem_map : mem_map[n] = SoCSDRAM_mem_map[n]

\* C3: the first allocation never fails, also on an empty map, and gives the
\* new names the consecutive ordinals max(base)+1, max(base)+2, ... in list
\* order
C3_ConsecutiveFromHighWater ==
    runs >= 1 =>
        /\ err = "none"
        /\ \A n \in Range(csr_peripherals) : n \in DOMAIN csr_first
        /\ DOMAIN csr_map0 # {} =>
              \A n \in Range(csr_peripherals) \ DOMAIN csr_map0 :
                 csr_first[n] = Max(Values(csr_map0)) + NewRank(csr_peripherals, csr_map0, n)

\* C4: with both Ethernet backends enabled the constructor fails before the
\* validation is passed and before anything is instantiated
C4_ExclusiveRejectedFirst ==
    (args.with_ethernet /\ args.with_etherbone) =>
        "validation" \notin done /\ DOMAIN submodules = {}

RegionLength(n) == IF n = "ethmac" THEN ETHMAC_SIZE ELSE 1

Overlap(b1, l1, b2, l2) == b1 < b2 + l2 /\ b2 < b1 + l1

\* C5: no two regions of the memory map intersect (an inherited region
\* covers at least its base address, ethmac its 0x2000 bytes)
C5_NoOverlap ==
    \A a, b \in DOMAIN mem_map :
        a # b => ~Overlap(mem_map[a], RegionLength(a), mem_map[b], RegionLength(b))

PcOrder ==
    << "class_body", "loaded", "init_assert", "SoCSDRAM_init", "core", "sdram",
       "ethernet", "etherbone", "pcie", "hdmi_in0", "hdmi_out0", "hdmi_in1" >>

Rank(p) == CHOOSE i \in 1..Len(PcOrder) : PcOrder[i] = p

\* the constructor has run the branch of peripheral p and is still running
RanBranch(p) == pc \in Range(PcOrder) /\ Rank(pc) > Rank(p)

Peripherals == {"ethernet", "etherbone", "pcie", "hdmi_in0", "hdmi_out0"}

IsEnabled(p) ==
    CASE p = "ethernet" -> args.with_ethernet
      [] p = "etherbone" -> args.with_etherbone
      [] p = "pcie" -> args.with_pcie
      [] p = "hdmi_in0" -> args.with_hdmi_in0
      [] p = "hdmi_out0" -> args.with_hdmi_out0

ClockDomains(p) ==
    CASE p = "ethernet" -> {"eth"}
      [] p = "etherbone" -> {"eth"}
      [] p = "pcie" -> {"pcie"}
      [] p = "hdmi_in0" -> {"hdmi_in0_pix", "hdmi_in0_pix1p25x", "hdmi_in0_pix5x"}
      [] p = "hdmi_out0" -> {"hdmi_out0_pix", "hdmi_out0_pix5x"}

\* C6: once the constructor is past the branch of an enabled peripheral, the
\* false-path constraints hold an edge between sys and each of its clocks
C6_CrossingsDeclared ==
    \A p \in Peripherals :
        (IsEnabled(p) /\ RanBranch(p)) =>
            \A d \in ClockDomains(p) : {"sys", d} \in edges(false_paths)

C6_Witness ==
    /\ pc = "hdmi_in1"
    /\ args.with_ethernet /\ args.with_pcie /\ args.with_hdmi_in0 /\ args.with_hdmi_out0
    /\ Cardinality(edges(false_paths)) = 7

\* C7: a second run of the allocation on the same dict and list leaves the
\* assignment of the first run
C7_SecondRunSame == (runs = 2 /\ err = "none") => csr_map = csr_first

\* C8: a list that names a peripheral twice is rejected with an error and
\* the map is left as it was
C8_DuplicateRejected ==
    (runs >= 1 /\ HasDuplicate(csr_peripherals)) =>
        err # "none" /\ csr_map = csr_map0

\* C9: the false-path constraints hold every unordered pair of clocks at
\* most once, however often it was declared
C9_EdgeDeclaredOnce ==
    \A i, j \in 1..Len(false_paths) :
        i # j => ~SamePair(false_paths[i], false_paths[j][1], false_paths[j][2])

\* both Ethernet branches ran and declared sys/eth
C9_Witness ==
    /\ pc = "pcie"
    /\ "ethmac" \in DOMAIN submodules
    /\ "etherbone" \in DOMAIN submodules
    /\ Cardinality({i \in 1..Len(false_paths) : SamePair(false_paths[i], "eth", "sys")}) = 1

====
